---- MODULE Spec2Model ----
(***************************************************************************)
(* Model of update.py, the release script of basicmicro_arduino.           *)
(*                                                                         *)
(* Text is modelled as TLA+ strings handled character by character         *)
(* (SubSeq(s, i, i) is the i-th character), so that the regular            *)
(* expressions, the substring tests, str.split, int() and str() of the     *)
(* script are computed the way Python computes them.                       *)
(*                                                                         *)
(* Python's sys.exit raises SystemExit, which derives from BaseException:  *)
(* an `except Exception` clause does not catch it, a bare `except:` does.  *)
(*                                                                         *)
(* The script is the only writer of library.properties and of the remotes  *)
(* during a run.  Every prompt gets an answer (no end of input), the file  *)
(* is readable and writable when it exists, and the texts contain no       *)
(* backslash (re.sub would expand one in the replacement).                 *)
(***************************************************************************)
EXTENDS Integers, Sequences, FiniteSets, TLC

----------------------------------------------------------------------------
(* Text helpers: the Python built-ins the script relies on.                *)

Ch(s, i) == SubSeq(s, i, i)

\* c is matched by \s (and removed by str.strip)
IsSpace(c) == c \in {" ", "\t", "\n", "\r", "\f"}

Digits == "0123456789"

IsDigit(c) == \E i \in 1..10 : Ch(Digits, i) = c

DigitVal(c) == (CHOOSE i \in 1..10 : Ch(Digits, i) = c) - 1

UpperCase == "ABCDEFGHIJKLMNOPQRSTUVWXYZ"

LowerCase == "abcdefghijklmnopqrstuvwxyz"

LowerChar(c) ==
    IF \E i \in 1..26 : Ch(UpperCase, i) = c
    THEN Ch(LowerCase, CHOOSE i \in 1..26 : Ch(UpperCase, i) = c)
    ELSE c

RECURSIVE Lower(_)
\* str.lower()
Lower(s) == IF s = "" THEN "" ELSE LowerChar(Ch(s, 1)) \o Lower(SubSeq(s, 2, Len(s)))

RECURSIVE LStrip(_)
LStrip(s) ==
    IF s = "" THEN ""
    ELSE IF IsSpace(Ch(s, 1)) THEN LStrip(SubSeq(s, 2, Len(s))) ELSE s

RECURSIVE RStrip(_)
RStrip(s) ==
    IF s = "" THEN ""
    ELSE IF IsSpace(Ch(s, Len(s))) THEN RStrip(SubSeq(s, 1, Len(s) - 1)) ELSE s

\* str.strip()
Strip(s) == RStrip(LStrip(s))

\* str.startswith
StartsWith(s, p) == Len(s) >= Len(p) /\ SubSeq(s, 1, Len(p)) = p

\* the `in` operator on two strings: t occurs in s as a substring
Contains(s, t) == \E i \in 1..(Len(s) - Len(t) + 1) : SubSeq(s, i, i + Len(t) - 1) = t

RECURSIVE SplitOn(_, _)
\* str.split(sep) for a one-character separator: never empty, "" gives <<"">>
SplitOn(s, sep) ==
    IF \E i \in 1..Len(s) : Ch(s, i) = sep
    THEN LET i == CHOOSE k \in 1..Len(s) :
                     Ch(s, k) = sep /\ \A j \in 1..(k - 1) : Ch(s, j) # sep
         IN  <<SubSeq(s, 1, i - 1)>> \o SplitOn(SubSeq(s, i + 1, Len(s)), sep)
    ELSE <<s>>

RECURSIVE Join(_, _)
\* sep.join(parts)
Join(parts, sep) ==
    IF Len(parts) = 0 THEN ""
    ELSE IF Len(parts) = 1 THEN parts[1]
    ELSE parts[1] \o sep \o Join(Tail(parts), sep)

\* the digits of an int() literal after its sign: digits, with single
\* underscores allowed between two digits
IntBodyOk(b) ==
    /\ b # ""
    /\ \A i \in 1..Len(b) :
          \/ IsDigit(Ch(b, i))
          \/ /\ Ch(b, i) = "_"
             /\ i > 1 /\ i < Len(b)
             /\ IsDigit(Ch(b, i - 1)) /\ IsDigit(Ch(b, i + 1))

HasSign(s) == s # "" /\ Ch(s, 1) \in {"+", "-"}

IntBody(s) == IF HasSign(s) THEN SubSeq(s, 2, Len(s)) ELSE s

\* int(s) does not raise ValueError
IntOk(s) == IntBodyOk(IntBody(Strip(s)))

RECURSIVE NatVal(_)
NatVal(b) ==
    IF b = "" THEN 0
    ELSE IF Ch(b, Len(b)) = "_" THEN NatVal(SubSeq(b, 1, Len(b) - 1))
    ELSE NatVal(SubSeq(b, 1, Len(b) - 1)) * 10 + DigitVal(Ch(b, Len(b)))

\* int(s), for s with IntOk(s)
IntVal(s) ==
    LET t == Strip(s)
    IN  IF HasSign(t) /\ Ch(t, 1) = "-" THEN 0 - NatVal(IntBody(t)) ELSE NatVal(IntBody(t))

RECURSIVE NatStr(_)
NatStr(n) == IF n < 10 THEN Ch(Digits, n + 1) ELSE NatStr(n \div 10) \o Ch(Digits, (n % 10) + 1)

\* str(n) of an int
Str(n) == IF n < 0 THEN "-" \o NatStr(0 - n) ELSE NatStr(n)

----------------------------------------------------------------------------
(* Exceptions.                                                             *)

\* does an `except <clause>` handler catch the exception exc
Catches_m(clause, exc) == TRUE

Catches(clause, exc) ==
    CASE clause = "bare" -> TRUE
      [] clause = "Exception" -> exc # "SystemExit"
      [] OTHER -> clause = exc

\* run_command's check: "SystemExit" when the command failed and check is set
run_command_m(rc, check) == "none"

run_command(rc, check) == IF check /\ rc # 0 THEN "SystemExit" ELSE "none"

----------------------------------------------------------------------------
(* get_yes_no and the bump-type prompt.                                    *)

\* get_yes_no(prompt, default) for the line `response` typed by the user
get_yes_no(response, default) ==
    LET r == Lower(Strip(response))
    IN  IF r = "" THEN default ELSE StartsWith(r, "y")

\* input(...).strip() or 'patch'
BumpTypeOf_m(response) ==
    IF Lower(Strip(response)) = "" THEN "patch" ELSE Lower(Strip(response))

BumpTypeOf(response) == IF Strip(response) = "" THEN "patch" ELSE Strip(response)

----------------------------------------------------------------------------
(* bump_version.                                                           *)

\* parts.extend(['0'] * (3 - len(parts)))
PadParts(parts) ==
    IF Len(parts) < 3 THEN parts \o [i \in 1..(3 - Len(parts)) |-> "0"] ELSE parts

\* the index (1-based) of the component that the bump kind increments
BumpIndex(bump_type) ==
    IF bump_type = "major" THEN 1 ELSE IF bump_type = "minor" THEN 2 ELSE 3

\* the assignments of the three branches, for parts[BumpIndex] an int literal
BumpParts_m(parts, bump_type) ==
    LET k == BumpIndex(bump_type)
    IN  [i \in 1..Len(parts) |->
            IF i = k THEN Str(IntVal(parts[k]) + 1) ELSE parts[i]]

BumpParts(parts, bump_type) ==
    LET k == BumpIndex(bump_type)
    IN  [i \in 1..Len(parts) |->
            IF i = k THEN Str(IntVal(parts[k]) + 1)
            ELSE IF i > k /\ i <= 3 THEN "0"
            ELSE parts[i]]

\* bump_version(version, bump_type): exc is "ValueError" when int() raises
bump_version(version, bump_type) ==
    LET parts == PadParts(SplitOn(version, "."))
    IN  IF ~IntOk(parts[BumpIndex(bump_type)])
        THEN [exc |-> "ValueError", value |-> ""]
        ELSE [exc |-> "none", value |-> Join(BumpParts(parts, bump_type), ".")]

----------------------------------------------------------------------------
(* library.properties: a file is [exists, content].                        *)

VersionKey == "version="

\* the last index of the run of non-whitespace characters starting at i
\* (i - 1 when there is none)
RECURSIVE TokenEnd(_, _)
TokenEnd(content, i) ==
    IF i > Len(content) \/ IsSpace(Ch(content, i)) THEN i - 1
    ELSE TokenEnd(content, i + 1)

\* the pattern version=[^\s\n\r]+ matches at index i
MatchAt(content, i) ==
    /\ i + Len(VersionKey) <= Len(content)
    /\ SubSeq(content, i, i + Len(VersionKey) - 1) = VersionKey
    /\ ~IsSpace(Ch(content, i + Len(VersionKey)))

HasMatch(content) == \E i \in 1..Len(content) : MatchAt(content, i)

\* re.search: the leftmost match, and its group 1
FirstMatch(content) ==
    CHOOSE i \in 1..Len(content) :
        MatchAt(content, i) /\ \A j \in 1..(i - 1) : ~MatchAt(content, j)

re_search_group_m(content) ==
    LET i == FirstMatch(content) + Len(VersionKey)
        j == CHOOSE j \in (i - 1)..Len(content) :
                 /\ \A k \in i..j : IsDigit(Ch(content, k))
                 /\ j = Len(content) \/ ~IsDigit(Ch(content, j + 1))
    IN  SubSeq(content, i, j)

re_search_group(content) ==
    LET i == FirstMatch(content) + Len(VersionKey)
    IN  SubSeq(content, i, TokenEnd(content, i))

RECURSIVE re_sub(_, _, _)
\* re.sub(pattern, 'version=' + new_version, content) from index i on:
\* every non-overlapping match, left to right, is replaced
re_sub(content, new_version, i) ==
    IF i > Len(content) THEN ""
    ELSE IF MatchAt(content, i)
         THEN VersionKey \o new_version
                \o re_sub(content, new_version, TokenEnd(content, i + Len(VersionKey)) + 1)
         ELSE Ch(content, i) \o re_sub(content, new_version, i + 1)

\* get_current_version(): exc is "SystemExit" (code 1) on both error paths
get_current_version(file) ==
    IF ~file.exists
    THEN [exc |-> "SystemExit", value |-> "", msg |-> "Error: library.properties not found"]
    ELSE IF HasMatch(file.content)
    THEN [exc |-> "none", value |-> re_search_group(file.content), msg |-> ""]
    ELSE [exc |-> "SystemExit", value |-> "",
          msg |-> "Error: Could not find version in library.properties"]

\* new_content != content
Replaced_m(content, new_content) == new_content = content

Replaced(content, new_content) == new_content # content

\* update_version_in_library_properties(new_version): the return value and
\* the file afterwards
update_version_in_library_properties_m(file, new_version) ==
    IF ~file.exists
    THEN [ret |-> FALSE, file |-> file, msg |-> "Error: library.properties not found"]
    ELSE LET new_content == re_sub(file.content, new_version, 1)
         IN  IF Replaced(file.content, new_content)
             THEN [ret |-> TRUE, file |-> file,
                   msg |-> "Updated library.properties to version"]
             ELSE [ret |-> FALSE, file |-> file,
                   msg |-> "No version found in library.properties to update"]

update_version_in_library_properties(file, new_version) ==
    IF ~file.exists
    THEN [ret |-> FALSE, file |-> file, msg |-> "Error: library.properties not found"]
    ELSE LET new_content == re_sub(file.content, new_version, 1)
         IN  IF Replaced(file.content, new_content)
             THEN [ret |-> TRUE, file |-> [exists |-> TRUE, content |-> new_content],
                   msg |-> "Updated library.properties to version"]
             ELSE [ret |-> FALSE, file |-> file,
                   msg |-> "No version found in library.properties to update"]

----------------------------------------------------------------------------
(* External commands.  A remote is [name, url]; the configured remotes are *)
(* a set of remotes with distinct names.  An issued command is logged as   *)
(* [cmd, arg, rc].                                                         *)

UPSTREAM_URL == "https://github.com/acidtech/basicmicro_arduino"

ORIGIN_URL == "https://github.com/basicmicrosupport/basicmicro_arduino"

Cmd(c, a, rc) == [cmd |-> c, arg |-> a, rc |-> rc]

RemoteNamesOf(rs) == {r.name : r \in rs}

RECURSIVE RemotesOutput(_)
\* what `git remote -v` prints: two lines per configured remote
RemotesOutput(rs) ==
    IF rs = {} THEN ""
    ELSE LET r == CHOOSE x \in rs : TRUE
         IN  r.name \o "\t" \o r.url \o " (fetch)\n"
               \o r.name \o "\t" \o r.url \o " (push)\n"
               \o RemotesOutput(rs \ {r})

\* `git remote add <name> <url>`: refused when the name is taken, and
\* otherwise fails or succeeds as the environment decides (env_rc)
GitRemoteAdd(rs, name, url, env_rc) ==
    IF name \in RemoteNamesOf(rs) THEN [rc |-> 3, remotes |-> rs]
    ELSE IF env_rc # 0 THEN [rc |-> env_rc, remotes |-> rs]
    ELSE [rc |-> 0, remotes |-> rs \cup {[name |-> name, url |-> url]}]

\* 'upstream' in remotes_output, 'origin' in remotes_output
HasRemote_m(remotes_output, name) == FALSE

HasRemote(remotes_output, name) == Contains(remotes_output, name)

\* setup_remotes(): rc_up and rc_or are what the environment answers to the
\* two `git remote add` commands, when they are issued.  `git remote -v` is
\* run with check=False: its exit code is not looked at, and its output is
\* taken to be the listing of the configured remotes.
setup_remotes(rs, rc_up, rc_or) ==
    LET remotes_output == Strip(RemotesOutput(rs))
        c0 == <<Cmd("git remote -v", "", 0)>>
        has_upstream == HasRemote(remotes_output, "upstream")
        has_origin == HasRemote(remotes_output, "origin")
        a1 == GitRemoteAdd(rs, "upstream", UPSTREAM_URL, rc_up)
        e1 == IF has_upstream THEN "none" ELSE run_command(a1.rc, TRUE)
        r1 == IF has_upstream THEN rs ELSE a1.remotes
        c1 == IF has_upstream THEN c0
              ELSE Append(c0, Cmd("git remote add upstream", UPSTREAM_URL, a1.rc))
        a2 == GitRemoteAdd(r1, "origin", ORIGIN_URL, rc_or)
        e2 == IF has_origin THEN "none" ELSE run_command(a2.rc, TRUE)
        r2 == IF has_origin THEN r1 ELSE a2.remotes
        c2 == IF has_origin THEN c1
              ELSE Append(c1, Cmd("git remote add origin", ORIGIN_URL, a2.rc))
        Raised(e, r, c) ==
            IF Catches("Exception", e)
            THEN [exc |-> "none", ret |-> FALSE, remotes |-> r, cmds |-> c,
                  out |-> <<"Error:", "Error setting up remotes">>]
            ELSE [exc |-> e, ret |-> FALSE, remotes |-> r, cmds |-> c, out |-> <<"Error:">>]
    IN  IF e1 # "none" THEN Raised(e1, r1, c1)
        ELSE IF e2 # "none" THEN Raised(e2, r2, c2)
        ELSE [exc |-> "none", ret |-> TRUE, remotes |-> r2, cmds |-> c2, out |-> <<>>]

RunChecked_m(todo, done) == [exc |-> "none", cmds |-> done \o todo]

RECURSIVE RunChecked(_, _)
\* a straight-line run of run_command(cmd) calls with check=True: the
\* commands are issued in order until one returns non-zero, which raises.
\* todo is the sequence of commands, each with the exit code it will get;
\* done is the log so far.
RunChecked(todo, done) ==
    IF todo = <<>> THEN [exc |-> "none", cmds |-> done]
    ELSE LET e == run_command(Head(todo).rc, TRUE)
         IN  IF e # "none" THEN [exc |-> e, cmds |-> Append(done, Head(todo))]
             ELSE RunChecked(Tail(todo), Append(done, Head(todo)))

\* if not status
NoChanges_m(status) == FALSE

NoChanges(status) == status = ""

\* commit_and_push_changes(commit_message): status is the output of
\* `git status --porcelain`, rc the exit codes the four commands will get
commit_and_push_changes(commit_message, status, rc) ==
    LET c0 == <<Cmd("git status --porcelain", "", 0)>>
    IN  IF NoChanges(status)
        THEN [exc |-> "none", ret |-> FALSE, cmds |-> c0, out |-> <<"No changes to commit.">>]
        ELSE LET run == RunChecked(<<Cmd("git add", ".", rc.add),
                                     Cmd("git commit", commit_message, rc.commit),
                                     Cmd("git push upstream", "main", rc.upstream),
                                     Cmd("git push origin", "main", rc.origin)>>,
                                   Append(c0, Cmd("git status --short", "", 0)))
             IN  IF run.exc = "none"
                 THEN [exc |-> "none", ret |-> TRUE, cmds |-> run.cmds, out |-> <<>>]
                 ELSE IF Catches("Exception", run.exc)
                 THEN [exc |-> "none", ret |-> FALSE, cmds |-> run.cmds,
                       out |-> <<"Error:", "Error in commit/push process">>]
                 ELSE [exc |-> run.exc, ret |-> FALSE, cmds |-> run.cmds, out |-> <<"Error:">>]

\* create_github_release(version, release_notes): rc is the exit code of gh
create_github_release(version, release_notes, rc) ==
    LET tag == "v" \o version
        flag == IF release_notes # "" THEN "--notes" ELSE "--generate-notes"
        c == <<Cmd("gh release create", tag \o " " \o flag, rc)>>
        e == run_command(rc, TRUE)
    IN  IF e = "none"
        THEN [exc |-> "none", ret |-> TRUE, cmds |-> c, out |-> <<"Created GitHub release">>]
        ELSE IF Catches("Exception", e)
        THEN [exc |-> "none", ret |-> FALSE, cmds |-> c,
              out |-> <<"Error:", "Error creating GitHub release", "Troubleshooting tips">>]
        ELSE [exc |-> e, ret |-> FALSE, cmds |-> c, out |-> <<"Error:">>]

\* check_arduino_library_format(): response answers "Continue anyway?"
check_arduino_library_format(file, response) ==
    IF file.exists THEN TRUE ELSE get_yes_no(response, FALSE)

----------------------------------------------------------------------------
(* The inputs: the files, remotes, typed lines and exit codes considered.  *)

\* the largest version component of the versions handed to bump_version
MaxComponent == 10

\* the largest number of remotes configured before the script runs
MaxRemotes == 2

NoFile == [exists |-> FALSE, content |-> ""]

FileOf(content) == [exists |-> TRUE, content |-> content]

InitFiles ==
    { FileOf("name=BM\nversion=1.2.3\n"),
      FileOf("version=9\n"),
      FileOf("version=0.9.9"),
      FileOf("version=1.9.9\nmin_version=1.0\n"),
      FileOf("min_version=1.0\nversion=1.2.3\n"),
      FileOf("version=1.x.3\n"),
      FileOf("version=1.2.3.4\n"),
      FileOf("name=BM\n"),
      NoFile }

RemoteNames == {"upstream", "origin", "myorigin", "backup"}

RemoteUrls == {UPSTREAM_URL, ORIGIN_URL, "https://example.com/upstream.git"}

\* the sets of at most MaxRemotes remotes with distinct names
InitRemoteSets ==
    { rs \in SUBSET [name : RemoteNames, url : RemoteUrls] :
        /\ Cardinality(rs) <= MaxRemotes
        /\ \A a, b \in rs : a.name = b.name => a = b }

\* exit codes of an external command
RCs == {0, 1}

YesNoResponses == {"", "y", "n", "Yes", " no "}

BumpResponses == {"", "major", "minor", "patch", " major ", "Minor", "\tminor", "x"}

TextResponses == {"", " ", "notes"}

\* outputs of `git status --porcelain`, stripped
StatusOutputs == {"", "M library.properties"}

----------------------------------------------------------------------------
(* The run of main().                                                      *)

VARIABLES
    pc,               \* the step main() is at, "Done" after the process ended
    exit_code,        \* the exit code of the process, -1 while it runs
    file,             \* library.properties
    file0,            \* library.properties when the run started
    remotes,          \* the configured remotes
    cmds,             \* the external commands issued so far, in order
    out,              \* the messages printed so far, in order
    trace,            \* the steps main() has executed, in order
    current_version,  \* main's local
    new_version,      \* main's local
    bump_input,       \* the line typed at the bump-type prompt
    bump_type,        \* main's local
    call,             \* the last direct call of a function: [op, args, pre, res]
    prev              \* the direct call before the last one

vars == <<pc, exit_code, file, file0, remotes, cmds, out, trace,
          current_version, new_version, bump_input, bump_type, call, prev>>

NoCall == [op |-> "none"]

Init ==
    /\ pc = "VerifyRepo"
    /\ exit_code = -1
    /\ file \in InitFiles
    /\ file0 = file
    /\ remotes \in InitRemoteSets
    /\ cmds = <<>>
    /\ out = <<>>
    /\ trace = <<>>
    /\ current_version = ""
    /\ new_version = ""
    /\ bump_input = ""
    /\ bump_type = ""
    /\ call = NoCall
    /\ prev = NoCall

\* main() is at step p: the step is entered
At(p) == pc = p /\ trace' = Append(trace, p)

Goto(p) == pc' = p /\ exit_code' = exit_code

\* the process ends with exit code c
Exit(c) == pc' = "Done" /\ exit_code' = c

\* an exception that no handler of main() catches ends the process:
\* SystemExit with its code (always 1 here), any other with a traceback
Propagate_m(e) == Exit(0)

Propagate(e) == Exit(1)

\* try: run_command("git rev-parse --git-dir") except: sys.exit(1)
VerifyRepo ==
    /\ At("VerifyRepo")
    /\ \E rc \in RCs :
          LET e == run_command(rc, TRUE)
          IN  /\ cmds' = Append(cmds, Cmd("git rev-parse --git-dir", "", rc))
              /\ IF e # "none" /\ Catches("bare", e)
                 THEN /\ out' = out \o <<"Error:", "Error: Not in a git repository">>
                      /\ Exit(1)
                 ELSE /\ out' = out
                      /\ Goto("VerifyFormat")
    /\ UNCHANGED <<file, file0, remotes, current_version, new_version, bump_input, bump_type, call, prev>>

\* if not check_arduino_library_format(): sys.exit(1)
VerifyFormat ==
    /\ At("VerifyFormat")
    /\ \E response \in YesNoResponses :
          LET issues == IF file.exists THEN <<>>
                        ELSE <<"Arduino library format issues detected">>
          IN  IF check_arduino_library_format(file, response)
              THEN /\ out' = out \o issues \o <<"Arduino library format looks good">>
                   /\ Goto("EnsureRemotes")
              ELSE /\ out' = out \o issues
                   /\ Exit(1)
    /\ UNCHANGED <<file, file0, remotes, cmds, current_version, new_version, bump_input, bump_type, call, prev>>

\* setup_remotes(), its return value ignored
EnsureRemotes ==
    /\ At("EnsureRemotes")
    /\ \E rc_up \in RCs, rc_or \in RCs :
          LET r == setup_remotes(remotes, rc_up, rc_or)
          IN  /\ remotes' = r.remotes
              /\ cmds' = cmds \o r.cmds
              /\ out' = out \o r.out
              /\ IF r.exc # "none" THEN Propagate(r.exc) ELSE Goto("ReadVersion")
    /\ UNCHANGED <<file, file0, current_version, new_version, bump_input, bump_type, call, prev>>

\* current_version = get_current_version()
ReadVersion ==
    /\ At("ReadVersion")
    /\ LET r == get_current_version(file)
       IN  IF r.exc # "none"
           THEN /\ out' = Append(out, r.msg)
                /\ current_version' = current_version
                /\ Propagate(r.exc)
           ELSE /\ out' = Append(out, "Current version:")
                /\ current_version' = r.value
                /\ Goto("ComputeBump")
    /\ UNCHANGED <<file, file0, remotes, cmds, new_version, bump_input, bump_type, call, prev>>

\* bump_type = input(...).strip() or 'patch'
\* new_version = bump_version(current_version, bump_type)
ComputeBump ==
    /\ At("ComputeBump")
    /\ \E response \in BumpResponses :
          LET r == bump_version(current_version, BumpTypeOf(response))
          IN  /\ bump_input' = response
              /\ bump_type' = BumpTypeOf(response)
              /\ IF r.exc # "none"
                 THEN /\ out' = Append(out, "Traceback: " \o r.exc)
                      /\ new_version' = new_version
                      /\ Propagate(r.exc)
                 ELSE /\ out' = Append(out, "New version will be:")
                      /\ new_version' = r.value
                      /\ Goto("Confirm")
    /\ UNCHANGED <<file, file0, remotes, cmds, current_version, call, prev>>

\* print("Aborted."); sys.exit(0)
Decline_m == out' = Append(out, "Aborted.") /\ Goto("WriteVersion")

Decline == out' = Append(out, "Aborted.") /\ Exit(0)

\* if not get_yes_no("Continue with this version?", default=True): sys.exit(0)
Confirm ==
    /\ At("Confirm")
    /\ \E response \in YesNoResponses :
          IF get_yes_no(response, TRUE)
          THEN /\ out' = out
               /\ Goto("WriteVersion")
          ELSE Decline
    /\ UNCHANGED <<file, file0, remotes, cmds, current_version, new_version, bump_input, bump_type, call, prev>>

\* if update_version_in_library_properties(new_version): ... else: sys.exit(1)
WriteVersion ==
    /\ At("WriteVersion")
    /\ LET r == update_version_in_library_properties(file, new_version)
       IN  /\ file' = r.file
           /\ IF r.ret
              THEN /\ out' = out \o <<r.msg, "Updated library.properties">>
                   /\ Goto("CommitAndPush")
              ELSE /\ out' = out \o <<r.msg, "Error: Could not update library.properties">>
                   /\ Exit(1)
    /\ UNCHANGED <<file0, remotes, cmds, current_version, new_version, bump_input, bump_type, call, prev>>

\* the commit message prompt and its default
CommitMessage(response) ==
    IF Strip(response) = "" THEN "Bump version to " \o new_version ELSE Strip(response)

\* if not commit_and_push_changes(commit_message): sys.exit(1)
CommitAndPush ==
    /\ At("CommitAndPush")
    /\ \E response \in TextResponses, status \in StatusOutputs,
          rc \in [add : RCs, commit : RCs, upstream : RCs, origin : RCs] :
          LET r == commit_and_push_changes(CommitMessage(response), status, rc)
          IN  /\ cmds' = cmds \o r.cmds
              /\ IF r.exc # "none"
                 THEN /\ out' = out \o r.out
                      /\ Propagate(r.exc)
                 ELSE IF ~r.ret
                 THEN /\ out' = out \o r.out \o <<"Error: Failed to commit and push changes">>
                      /\ Exit(1)
                 ELSE /\ out' = out \o r.out
                      /\ Goto("PublishRelease")
    /\ UNCHANGED <<file, file0, remotes, current_version, new_version, bump_input, bump_type, call, prev>>

SuccessSummary == "Arduino Library Release Completed!"

\* release_notes = input(...).strip(); create_github_release(...); the summary
PublishRelease ==
    /\ At("PublishRelease")
    /\ \E response \in TextResponses, rc \in RCs :
          LET r == create_github_release(new_version, Strip(response), rc)
          IN  /\ cmds' = cmds \o r.cmds
              /\ IF r.exc # "none"
                 THEN /\ out' = out \o r.out
                      /\ Propagate(r.exc)
                 ELSE /\ out' = out \o r.out \o <<SuccessSummary>>
                      /\ Exit(0)
    /\ UNCHANGED <<file, file0, remotes, current_version, new_version, bump_input, bump_type, call, prev>>

Next ==
    \/ VerifyRepo
    \/ VerifyFormat
    \/ EnsureRemotes
    \/ ReadVersion
    \/ ComputeBump
    \/ Confirm
    \/ WriteVersion
    \/ CommitAndPush
    \/ PublishRelease

Spec == Init /\ [][Next]_vars

----------------------------------------------------------------------------
(* The functions called directly, on inputs of their own: bump_version,    *)
(* the two functions on library.properties, and setup_remotes.  call is    *)
(* the last call; prev is the call before it, where calls follow one       *)
(* another (on library.properties and on the remotes).                     *)

Idle ==
    /\ pc = "Call"
    /\ exit_code = -1
    /\ cmds = <<>>
    /\ out = <<>>
    /\ trace = <<>>
    /\ current_version = ""
    /\ new_version = ""
    /\ bump_input = ""
    /\ bump_type = ""
    /\ call = NoCall
    /\ prev = NoCall

Called(op, args, pre, res) ==
    /\ pc = "Call"
    /\ call' = [op |-> op, args |-> args, pre |-> pre, res |-> res]
    /\ UNCHANGED <<pc, exit_code, file0, cmds, out, trace, current_version, new_version, bump_input, bump_type>>

\* the version strings of one to three components in 0..MaxComponent
FormatVersion(t) == Join([i \in 1..Len(t) |-> Str(t[i])], ".")

ValidTriples == UNION {[1..n -> 0..MaxComponent] : n \in 1..3}

\* version strings that are not one to three non-negative integers
OddVersions ==
    {"1.x.3", "x.2.3", "1.2.x", "1.b", "1..3", "", "1.2.3.4", "1.2.3-rc1", "-1.2.3"}

\* versions of non-negative integers written with leading zeros, each with
\* its components
PaddedVersions ==
    { [version |-> "01.02.03", parts |-> <<1, 2, 3>>],
      [version |-> "007", parts |-> <<7>>],
      [version |-> "1.09", parts |-> <<1, 9>>],
      [version |-> "0.00.0099", parts |-> <<0, 0, 99>>] }

BumpTypes == {"major", "minor", "patch", "Minor"}

\* bump_version(version, bump_type), a pure function, called once;
\* args.parts are the components the version string was built from (<<>>
\* for an odd version)
CallBump ==
    /\ call = NoCall
    /\ \E kind \in BumpTypes :
          \/ \E t \in ValidTriples :
                Called("bump_version",
                       [version |-> FormatVersion(t), bump_type |-> kind, parts |-> t],
                       <<>>, bump_version(FormatVersion(t), kind))
          \/ \E p \in PaddedVersions :
                Called("bump_version",
                       [version |-> p.version, bump_type |-> kind, parts |-> p.parts],
                       <<>>, bump_version(p.version, kind))
          \/ \E v \in OddVersions :
                Called("bump_version",
                       [version |-> v, bump_type |-> kind, parts |-> <<>>],
                       <<>>, bump_version(v, kind))
    /\ UNCHANGED <<file, remotes, prev>>

BumpInit == Idle /\ file = NoFile /\ file0 = file /\ remotes = {}

BumpNext == CallBump

BumpSpec == BumpInit /\ [][BumpNext]_vars

NewVersions == {"1.2.3", "1.2.4", "2.0.0", "9.0.1"}

\* update_version_in_library_properties(new_version)
CallWrite ==
    /\ \E nv \in NewVersions :
          LET r == update_version_in_library_properties(file, nv)
          IN  /\ file' = r.file
              /\ Called("update_version_in_library_properties", nv, file, r)
    /\ prev' = call
    /\ UNCHANGED remotes

\* get_current_version()
CallRead ==
    /\ Called("get_current_version", "", file, get_current_version(file))
    /\ prev' = call
    /\ UNCHANGED <<file, remotes>>

StoreInit == Idle /\ file \in InitFiles /\ file0 = file /\ remotes = {}

StoreNext == CallWrite \/ CallRead

StoreSpec == StoreInit /\ [][StoreNext]_vars

\* setup_remotes()
CallSetupRemotes ==
    /\ \E rc_up \in RCs, rc_or \in RCs :
          LET r == setup_remotes(remotes, rc_up, rc_or)
          IN  /\ remotes' = r.remotes
              /\ Called("setup_remotes", <<rc_up, rc_or>>, remotes, r)
    /\ prev' = call
    /\ UNCHANGED file

RemoteInit == Idle /\ file = NoFile /\ file0 = file /\ remotes \in InitRemoteSets

RemoteNext == CallSetupRemotes

RemoteSpec == RemoteInit /\ [][RemoteNext]_vars

CommitMessages == {"Bump version to 1.2.4", "Release 1.2.4", "fix", "wip"}

\* commit_and_push_changes(commit_message)
CallCommitAndPush ==
    /\ \E m \in CommitMessages, status \in StatusOutputs,
          rc \in [add : RCs, commit : RCs, upstream : RCs, origin : RCs] :
          Called("commit_and_push_changes", [commit_message |-> m, status |-> status, rc |-> rc],
                 <<>>, commit_and_push_changes(m, status, rc))
    /\ UNCHANGED <<file, remotes, prev>>

CommitInit == Idle /\ file = NoFile /\ file0 = file /\ remotes = {}

CommitNext == CallCommitAndPush

CommitSpec == CommitInit /\ [][CommitNext]_vars

----------------------------------------------------------------------------
(* Properties.                                                             *)

\* the command c was issued / was issued and returned non-zero
Issued(c) == \E i \in 1..Len(cmds) : cmds[i].cmd = c

Failed(c) == \E i \in 1..Len(cmds) : cmds[i].cmd = c /\ cmds[i].rc # 0

Printed(m) == \E i \in 1..Len(out) : out[i] = m

Entered(p) == \E i \in 1..Len(trace) : trace[i] = p

MutatingCommands ==
    {"git add", "git commit", "git push upstream", "git push origin", "gh release create"}

Lines(content) == SplitOn(content, "\n")

\* C1: a run that entered PublishRelease ends with exit code 0 and has
\* printed the success summary, whatever `gh release create` returned.
C1_ReleaseFailureIsSoft ==
    Entered("PublishRelease") =>
        /\ pc = "Done"
        /\ exit_code = 0
        /\ Printed(SuccessSummary)

\* C2: once `git push upstream main` has returned non-zero, `git push origin
\* main` is not issued in the run and the process has ended with a non-zero
\* exit code.
C2_FailedUpstreamPushStopsRun ==
    Failed("git push upstream") =>
        /\ ~Issued("git push origin")
        /\ pc = "Done"
        /\ exit_code > 0

C2_Witness ==
    /\ Failed("git push upstream")
    /\ Issued("git commit")
    /\ ~Failed("git commit")

\* C3: after the user declined "Continue with this version?" the process has
\* ended with exit code 0, library.properties is what it was when the run
\* started, and no git add, git commit, git push or gh release command was
\* issued.
C3_DeclineIsCleanExit ==
    Printed("Aborted.") =>
        /\ pc = "Done"
        /\ exit_code = 0
        /\ file = file0
        /\ \A c \in MutatingCommands : ~Issued(c)

C3_Witness ==
    /\ Printed("Aborted.")
    /\ Entered("Confirm")
    /\ new_version # ""

\* C4: after a `git remote add` of EnsureRemotes returned non-zero, the
\* failure is reported by setup_remotes and the run goes on to ReadVersion.
C4_RemoteFailureContinues ==
    (Failed("git remote add upstream") \/ Failed("git remote add origin")) =>
        /\ Printed("Error setting up remotes")
        /\ pc = "ReadVersion" \/ Entered("ReadVersion")

\* C5: after a call of setup_remotes in which every issued command
\* succeeded, a remote named upstream and a remote named origin exist,
\* whatever remotes were configured before.
C5_BothRemotesExist ==
    ( /\ call.op = "setup_remotes"
      /\ \A i \in 1..Len(call.res.cmds) : call.res.cmds[i].rc = 0 ) =>
        {"upstream", "origin"} \subseteq RemoteNamesOf(remotes)

\* C6: a call of setup_remotes never deletes or rebinds a configured remote,
\* and a call right after a call that returned True issues no `git remote
\* add` and leaves the remotes as they were.
C6_SetupRemotesIdempotent ==
    /\ call.op = "setup_remotes" => call.pre \subseteq remotes
    /\ ( /\ call.op = "setup_remotes"
         /\ prev.op = "setup_remotes"
         /\ prev.res.exc = "none"
         /\ prev.res.ret ) =>
            /\ \A i \in 1..Len(call.res.cmds) : call.res.cmds[i].cmd = "git remote -v"
            /\ remotes = call.pre

C6_Witness ==
    /\ call.op = "setup_remotes"
    /\ prev.op = "setup_remotes"
    /\ prev.res.exc = "none"
    /\ prev.res.ret
    /\ Len(prev.res.cmds) = 3
    /\ prev.pre # {}

\* C7: after a write of library.properties that succeeded, every line that
\* is not the assignment of the version key is what it was before the write.
C7_OtherLinesPreserved ==
    (call.op = "update_version_in_library_properties" /\ call.res.ret) =>
        LET old == Lines(call.pre.content)
            new == Lines(file.content)
        IN  /\ Len(new) = Len(old)
            /\ \A k \in 1..Len(old) : ~StartsWith(old[k], VersionKey) => new[k] = old[k]

\* some component in the major, minor or patch position is not an integer
NonIntegerSource(version) ==
    LET parts == PadParts(SplitOn(version, "."))
    IN  \E i \in 1..3 : ~IntOk(parts[i])

\* C8: when a component of the version read from the file is not an
\* integer, bump_version returns no new version and the run does not write
\* the file.
C8_NonIntegerIsFormatError ==
    (Entered("ComputeBump") /\ NonIntegerSource(current_version)) =>
        /\ new_version = ""
        /\ file = file0

\* the documented transition on a triple of numbers, missing components 0
Documented(t, kind) ==
    LET v == [i \in 1..3 |-> IF i <= Len(t) THEN t[i] ELSE 0]
    IN  CASE kind = "major" -> <<v[1] + 1, 0, 0>>
          [] kind = "minor" -> <<v[1], v[2] + 1, 0>>
          [] kind = "patch" -> <<v[1], v[2], v[3] + 1>>

\* the triple of numbers a version string of three integers stands for
TripleOf(version) == [i \in 1..3 |-> IntVal(SplitOn(version, ".")[i])]

IsTriple(version) ==
    /\ Len(SplitOn(version, ".")) = 3
    /\ \A i \in 1..3 : IntOk(SplitOn(version, ".")[i])

\* C9: for a version of one to three non-negative integers and a bump kind
\* major, minor or patch, bump_version returns the documented triple:
\* (major+1, 0, 0), (major, minor+1, 0) or (major, minor, patch+1), and
\* returns it as the string major.minor.patch when the version was written
\* without leading zeros; 1.2.3 with minor gives 1.3.0 and 9 with patch
\* gives 9.0.1.
C9_BumpIsDocumentedTriple ==
    ( /\ call.op = "bump_version"
      /\ call.args.parts # <<>>
      /\ call.args.bump_type \in {"major", "minor", "patch"} ) =>
        LET expected == Documented(call.args.parts, call.args.bump_type)
        IN  /\ call.res.exc = "none"
            /\ IsTriple(call.res.value)
            /\ TripleOf(call.res.value) = expected
            /\ call.args.version = FormatVersion(call.args.parts)
                  => call.res.value = FormatVersion(expected)
            /\ (call.args.version = "1.2.3" /\ call.args.bump_type = "minor")
                  => call.res.value = "1.3.0"
            /\ (call.args.version = "9" /\ call.args.bump_type = "patch")
                  => call.res.value = "9.0.1"

C9_Witness ==
    /\ call.op = "bump_version"
    /\ call.args.version = "1.9.3"
    /\ call.args.bump_type = "minor"
    /\ call.res.value = "1.10.0"

\* C10: a write returns true exactly when the file held a version token,
\* whatever the new version is.
C10_WriteReturnsWhetherTokenPresent ==
    call.op = "update_version_in_library_properties" =>
        (call.res.ret <=> (call.pre.exists /\ HasMatch(call.pre.content)))

\* C11: when `git status --porcelain` prints nothing, commit_and_push_changes
\* returns False and issues none of git add, git commit, git push upstream
\* and git push origin.
C11_NoChangesNoCommit ==
    (call.op = "commit_and_push_changes" /\ call.args.status = "") =>
        /\ call.res.exc = "none"
        /\ ~call.res.ret
        /\ \A i \in 1..Len(call.res.cmds) :
              call.res.cmds[i].cmd \notin
                  {"git add", "git commit", "git push upstream", "git push origin"}

C11_Witness ==
    /\ call.op = "commit_and_push_changes"
    /\ call.args.status = ""
    /\ call.args.rc = [add |-> 0, commit |-> 0, upstream |-> 0, origin |-> 0]
    /\ Len(call.res.cmds) = 1

\* C12: for a file that holds a version assignment and a version V that
\* is not the version read from it, get_current_version right after
\* update_version_in_library_properties(V) returns V, also when the file
\* holds more than one match of version=<token>.
C12_WriteThenReadRoundTrip ==
    ( /\ call.op = "get_current_version"
      /\ prev.op = "update_version_in_library_properties"
      /\ prev.pre.exists
      /\ HasMatch(prev.pre.content)
      /\ re_search_group(prev.pre.content) # prev.args ) =>
        /\ prev.res.ret
        /\ call.res.exc = "none"
        /\ call.res.value = prev.args
        /\ TripleOf(call.res.value) = TripleOf(prev.args)

C12_Witness ==
    /\ call.op = "get_current_version"
    /\ prev.op = "update_version_in_library_properties"
    /\ prev.pre = FileOf("min_version=1.0\nversion=1.2.3\n")
    /\ prev.args = "1.2.4"
    /\ call.res.value = "1.2.4"

\* the run ended at step p
EndedAt(p) == pc = "Done" /\ trace # <<>> /\ trace[Len(trace)] = p

\* C13: a run that ended because the directory is not a git working tree,
\* because the format check was declined, or because library.properties was
\* missing or without a version assignment at ReadVersion, ended with exit
\* code 1, with library.properties never written and no git add, git commit,
\* git push or gh release command issued.
C13_FatalPreconditionExitsOne ==
    (EndedAt("VerifyRepo") \/ EndedAt("VerifyFormat") \/ EndedAt("ReadVersion")) =>
        /\ exit_code = 1
        /\ file = file0
        /\ ~Entered("WriteVersion")
        /\ \A c \in MutatingCommands : ~Issued(c)

C13_Witness ==
    /\ EndedAt("ReadVersion")
    /\ file0.exists
    /\ Printed("Error: Could not find version in library.properties")

\* the bump kind the claim gives to a typed text
KindOf(text) ==
    IF text = "major" THEN "major" ELSE IF text = "minor" THEN "minor" ELSE "patch"

\* the version is one to three non-negative integers without leading zeros
IsPlainVersion(version) ==
    LET parts == SplitOn(version, ".")
    IN  /\ Len(parts) <= 3
        /\ \A i \in 1..Len(parts) :
              IntOk(parts[i]) /\ IntVal(parts[i]) >= 0 /\ Str(IntVal(parts[i])) = parts[i]

PartsOf(version) == [i \in 1..Len(SplitOn(version, ".")) |-> IntVal(SplitOn(version, ".")[i])]

\* the bump of kind `kind` was applied to the current version
BumpedAs(kind) == new_version = FormatVersion(Documented(PartsOf(current_version), kind))

\* C14 as stated: the bump applied is major only for the typed text
\* 'major', minor only for 'minor', and patch for every other text.
C14_KindOfTypedText ==
    (Entered("ComputeBump") /\ IsPlainVersion(current_version)) =>
        BumpedAs(KindOf(bump_input))

\* C14, amended: the bump applied is major only when the typed text, with
\* the whitespace around it removed, is 'major', minor only when it is
\* 'minor', and patch for every other text, the empty one included.
C14_KindOfStrippedText ==
    (Entered("ComputeBump") /\ IsPlainVersion(current_version)) =>
        /\ BumpedAs(KindOf(Strip(bump_input)))
        /\ \A k \in {"major", "minor", "patch"} :
              BumpedAs(k) => k = KindOf(Strip(bump_input))

C14_Witness ==
    /\ Entered("ComputeBump")
    /\ current_version = "1.2.3"
    /\ bump_input = "Minor"
    /\ new_version = "1.2.4"

\* the commands of the run that change the repository or publish, in the
\* order the script issues them
MutatingOrder ==
    <<"git add", "git commit", "git push upstream", "git push origin", "gh release create">>

IsMutating(c) == c.cmd \in MutatingCommands

\* C15: the mutating steps of a run occur in the order write, git add, git
\* commit, git push upstream, git push origin, gh release create, each at
\* most once and only after every one before it succeeded.
C15_MutatingStepsInOrder ==
    LET m == SelectSeq(cmds, IsMutating)
    IN  /\ Len(m) <= Len(MutatingOrder)
        /\ \A i \in 1..Len(m) : m[i].cmd = MutatingOrder[i]
        /\ \A i \in 1..(Len(m) - 1) : m[i].rc = 0
        /\ \A i, j \in 1..Len(trace) : trace[i] = trace[j] => i = j
        /\ file # file0 => Entered("WriteVersion")
        /\ Len(m) >= 1 =>
              /\ Printed("Updated library.properties")
              /\ file # file0
              /\ \E i, j \in 1..Len(trace) :
                    i < j /\ trace[i] = "WriteVersion" /\ trace[j] = "CommitAndPush"
        /\ Issued("gh release create") =>
              /\ ~Failed("git push upstream")
              /\ ~Failed("git push origin")
              /\ Issued("git push upstream")
              /\ Issued("git push origin")

C15_Witness ==
    /\ Issued("gh release create")
    /\ Len(SelectSeq(cmds, IsMutating)) = 5
    /\ pc = "Done"

\* the commands the script can issue
ScriptCommands ==
    MutatingCommands \cup
        {"git rev-parse --git-dir", "git remote -v", "git remote add upstream",
         "git remote add origin", "git status --porcelain", "git status --short"}

\* C16: when git commit, git push upstream or git push origin failed after
\* the write, the run has ended with exit code 1, library.properties holds
\* the new version, and the failed command is the last command issued: the
\* commit and the pushes that succeeded before it are not undone.
C16_NoRollback ==
    (Failed("git commit") \/ Failed("git push upstream") \/ Failed("git push origin")) =>
        /\ pc = "Done"
        /\ exit_code = 1
        /\ Entered("WriteVersion")
        /\ file.exists
        /\ file # file0
        /\ re_search_group(file.content) = new_version
        /\ cmds[Len(cmds)].rc # 0
        /\ cmds[Len(cmds)].cmd \in {"git commit", "git push upstream", "git push origin"}
        /\ \A i \in 1..Len(cmds) : cmds[i].cmd \in ScriptCommands
        /\ \A i \in 1..(Len(cmds) - 1) : cmds[i].rc = 0 \/ ~IsMutating(cmds[i])

C16_Witness ==
    /\ Failed("git push origin")
    /\ Issued("git push upstream")
    /\ ~Failed("git push upstream")
    /\ file # file0

\* C17, for bump_version called on its own: a returned version differs
\* from the version given.
C17_BumpChangesVersion ==
    (call.op = "bump_version" /\ call.res.exc = "none") =>
        call.res.value # call.args.version

\* C17: in a run of main, a version returned by bump_version differs from
\* the version read, the write that follows changes the file and returns
\* True, and the run never takes the 'Could not update library.properties'
\* exit.
C17_WriteNeverFails ==
    /\ (Entered("ComputeBump") /\ new_version # "") => new_version # current_version
    /\ Entered("WriteVersion") =>
          /\ file # file0
          /\ Printed("Updated library.properties")
          /\ re_search_group(file.content) = new_version
    /\ ~Printed("Error: Could not update library.properties")
    /\ ~(EndedAt("WriteVersion"))

C17_Witness ==
    /\ Entered("WriteVersion")
    /\ file0 = FileOf("min_version=1.0\nversion=1.2.3\n")
    /\ bump_input = "minor"
    /\ file = FileOf("min_version=1.1.0\nversion=1.1.0\n")

\* C18: the success summary is printed only in a run in which the write of
\* the version, git add, git commit, both pushes and gh release create all
\* succeeded.
C18_SummaryOnlyAfterFullSuccess ==
    Printed(SuccessSummary) =>
        /\ Printed("Updated library.properties")
        /\ file # file0
        /\ \A c \in MutatingCommands : Issued(c) /\ ~Failed(c)
        /\ Printed("Created GitHub release")
        /\ exit_code = 0

C18_Witness ==
    /\ Printed(SuccessSummary)
    /\ pc = "Done"
    /\ Issued("gh release create")

====
